---- MODULE Spec2Model ----
(***************************************************************************)
(* Producer-consumer simulation of assignment1/ProducerConsumer/core.py:   *)
(* a SimulationManager starts num_producers Producer threads and           *)
(* num_consumers Consumer threads around one queue.Queue(maxsize), joins   *)
(* the producers, enqueues one STOP_SIGNAL per consumer, joins the         *)
(* consumers and returns the merged, sorted private buffers.               *)
(*                                                                         *)
(* Every thread is a process whose position is a pc value; one action is   *)
(* one atomic step of the Python code (a queue.Queue call, which runs      *)
(* under the queue's mutex, or a piece of thread-local code).              *)
(***************************************************************************)
EXTENDS Integers, Sequences, FiniteSets, TLC

\* ---------------------------------------------------------------- bounds
MaxItems == 3
MaxCapacity == 2
MaxProducers == 2
MaxConsumers == 2
PlanMaxItems == 10
PlanMaxProducers == 4
MaxEntryLen == 2
MaxPrompts == 2
MaxRangeBound == 2

VARIABLES
    ctor_args,           \* the arguments SimulationManager(...) was called with
    ctor_error,          \* the exception __init__ raised, or "none"
    number_of_items, queue_capacity, num_producers, num_consumers,
    source_data_chunks,  \* partition plan, one slice per producer
    seq_args,            \* which of the lock and the counter producers are given
    cli_pc,              \* get_valid_input: off, call, prompt, returned, raised
    cli_isatty,          \* sys.stdin.isatty()
    cli_min, cli_max,    \* min_value, max_value ([some |-> FALSE] for None)
    cli_entry,           \* what the last input() call met
    cli_value,           \* the value returned
    cli_exc,             \* the exception raised, or "none"
    cli_prompts,         \* input() calls so far
    cli_errors,          \* "Error: ..." lines printed so far
    sequence_value,      \* self.sequence_value[0]
    sequence_counter,    \* the Lock: 0 when free, else the producer holding it
    queue,               \* entries of self.queue, oldest first
    unfinished_tasks,    \* queue.Queue's put / task_done counter
    destination_data,    \* self.destination_data
    mgr_pc, mgr_i,       \* position of the thread that called run()
    p_pc, p_idx, p_seq, p_item,            \* Producer threads
    c_pc, c_item, c_after, local_destination,  \* Consumer threads
    n_events,            \* per kind: events emitted in this run
    last_event,          \* the event emitted last in this run
    handed,              \* sequence numbers read by producers, in order
    completed,           \* sequence numbers whose allocation has released the lock
    p_seen,              \* per producer: completed when it entered the lock
    puts,                \* who enqueued what: set of [by, tag]
    put_order,           \* per queue entry: the rank of the put that added it
    got_last,            \* the put rank of the entry dequeued last
    sentinels_put,       \* STOP_SIGNALs enqueued in this run
    early_sentinel,      \* a STOP_SIGNAL was enqueued while a producer was alive
    item_after_stop,     \* a WorkItem was enqueued after a STOP_SIGNAL
    stops_got,           \* per consumer: STOP_SIGNALs dequeued
    ops_after_stop,      \* per consumer: queue operations after its STOP_SIGNAL
    has_prev,            \* an earlier run() on this manager has returned
    prev_ids,            \* the item_ids that earlier run() returned
    faulted              \* a worker fault was injected in this run

cfgvars == <<ctor_args, ctor_error, number_of_items, queue_capacity,
             num_producers, num_consumers, source_data_chunks, seq_args>>
seqvars == <<sequence_value, sequence_counter>>
qvars   == <<queue, unfinished_tasks, put_order, got_last>>
mgrvars == <<destination_data, mgr_pc, mgr_i>>
pvars   == <<p_pc, p_idx, p_seq, p_item>>
cvars   == <<c_pc, c_item, c_after, local_destination>>
evvars  == <<n_events, last_event>>
allocgh == <<handed, completed, p_seen>>
putgh   == <<puts, sentinels_put, early_sentinel, item_after_stop>>
stopgh  == <<stops_got, ops_after_stop>>
rungh   == <<has_prev, prev_ids, faulted>>
clivars == <<cli_pc, cli_isatty, cli_min, cli_max, cli_entry, cli_value,
             cli_exc, cli_prompts, cli_errors>>
simvars == <<cfgvars, seqvars, qvars, mgrvars, pvars, cvars, evvars,
             allocgh, putgh, stopgh, rungh>>
vars == <<simvars, clivars>>

\* ------------------------------------------------------------ data model
Min(a, b) == IF a < b THEN a ELSE b

EmptyFields == [n \in {} |-> 0]

\* STOP_SIGNAL = None
STOP_SIGNAL == [tag |-> "stop", f |-> EmptyFields]

NoItem == [tag |-> "none", f |-> EmptyFields]

NoEvent == [kind |-> "none", before |-> 0, after |-> 0]

EventKinds == {"produced", "consumed", "terminated"}

NoEvents == [k \in EventKinds |-> 0]

\* a WorkItem dataclass that also declares sequence_number
WorkItemFields_WithSequence == {"item_id", "sequence_number"}

\* the fields of the WorkItem dataclass
WorkItemFields == {"item_id"}

\* the generated dataclass __init__: every field is required, and an
\* argument that names no field is a TypeError
WorkItemInitAccepts(args) == DOMAIN args = WorkItemFields

\* the frozen instance built from accepted arguments
WorkItem(args) == [tag |-> "item", f |-> args]

\* the arguments of Producer.run's call WorkItem(item_id, sequence_number=seq_num)
ProducerCallArgs(item_id, seq_num) ==
    [item_id |-> item_id, sequence_number |-> seq_num]

\* item.item_id
ItemId(item) == item.f["item_id"]

\* [item.item_id for item in results]
Ids(s) == [k \in 1..Len(s) |-> ItemId(s[k])]

HasSequenceNumber(item) == "sequence_number" \in DOMAIN item.f

\* ----------------------------------------------------- _distribute_items
\* a plan that forgets the remainder: every slice gets chunk_size ids
RECURSIVE DistributeFrom_NoRemainder(_, _, _, _, _)
DistributeFrom_NoRemainder(i, start, chunks, n, np) ==
    IF i >= np THEN chunks
    ELSE LET size == n \div np
             slice == [k \in 1..(Min(start + size, n) - Min(start, n))
                          |-> Min(start, n) + k]
         IN DistributeFrom_NoRemainder(i + 1, start + size,
                                       Append(chunks, slice), n, np)

RECURSIVE DistributeFrom(_, _, _, _, _)
DistributeFrom(i, start, chunks, n, np) ==
    IF i >= np THEN chunks
    ELSE LET chunk_size == n \div np
             remainder == n % np
             size == chunk_size + (IF i < remainder THEN 1 ELSE 0)
             \* source_data[start:start + size], source_data = [1..n]
             slice == [k \in 1..(Min(start + size, n) - Min(start, n))
                          |-> Min(start, n) + k]
         IN DistributeFrom(i + 1, start + size, Append(chunks, slice), n, np)

_distribute_items(n, np) == DistributeFrom(0, 0, <<>>, n, np)

\* ------------------------------------------------- sort by sequence_number
RECURSIVE InsertBySeq(_, _)
InsertBySeq(sorted, item) ==
    IF sorted = <<>> THEN <<item>>
    ELSE LET last == sorted[Len(sorted)]
         IN IF last.f["sequence_number"] <= item.f["sequence_number"]
            THEN Append(sorted, item)
            ELSE Append(InsertBySeq(SubSeq(sorted, 1, Len(sorted) - 1), item), last)

\* list.sort(key=lambda item: item.sequence_number), a stable sort
RECURSIVE SortBySeq(_)
SortBySeq(s) ==
    IF s = <<>> THEN <<>>
    ELSE InsertBySeq(SortBySeq(SubSeq(s, 1, Len(s) - 1)), s[Len(s)])

RECURSIVE Concat(_, _, _)
Concat(bufs, i, n) ==
    IF i > n THEN <<>> ELSE bufs[i] \o Concat(bufs, i + 1, n)

Producers == 1..num_producers
Consumers == 1..num_consumers

Terminated(pc) == pc \in {"done", "dead"}

\* the rank of the next put: one more than every rank handed out so far
RECURSIVE MaxOf(_, _)
MaxOf(s, m) ==
    IF s = <<>> THEN m ELSE MaxOf(Tail(s), IF Head(s) > m THEN Head(s) ELSE m)

NextPutRank == MaxOf(put_order, got_last) + 1

\* a sequence without its k-th element
RemoveAt(s, k) == SubSeq(s, 1, k - 1) \o SubSeq(s, k + 1, Len(s))

\* a get that takes the entry put last
GetIndex_Newest == Len(queue)

\* queue.Queue.get takes the entry that has been in the queue longest
GetIndex == 1

\* a put that lets one entry too many in
QueueFull_OneTooMany == Len(queue) > queue_capacity

\* a put that never waits for a free slot
QueueFull_NeverWaits == FALSE

\* queue.Queue: put waits while qsize() >= maxsize, get waits while empty
QueueFull == Len(queue) >= queue_capacity
\* a get that is never woken up
QueueEmpty_NeverWakes == TRUE

QueueEmpty == Len(queue) = 0

\* a length sample that still counts the entry just removed
Qsize_CountsRemoved == Len(queue) + 1

\* queue.Queue.qsize()
Qsize == Len(queue)

\* ------------------------------------------------------------------ Init
\* a constructor argument: an int of -1..max, or a value that is not an int
ArgValues(max) ==
    {[ty |-> "int", val |-> v] : v \in -1..max} \cup {[ty |-> "str", val |-> 1]}

\* isinstance(x, int)
IsInt(a) == a.ty = "int"

\* a range check that lets 0 through
Positive_AcceptsZero(a) == a.val >= 0

\* the range checks raise when x <= 0
Positive(a) == a.val > 0

ArgNames ==
    {"number_of_items", "queue_capacity", "num_producers", "num_consumers"}

\* the four isinstance checks come first, then the four range checks
Validate(args) ==
    IF \E n \in ArgNames : ~IsInt(args[n]) THEN "TypeError"
    ELSE IF \E n \in ArgNames : ~Positive(args[n]) THEN "ValueError"
    ELSE "none"

\* SimulationManager.__init__: when validation raises, no attribute is set
\* and the caller gets no manager object
ManagerInit ==
    /\ ctor_args \in [number_of_items : ArgValues(MaxItems),
                       queue_capacity : ArgValues(MaxCapacity),
                       num_producers : ArgValues(MaxProducers),
                       num_consumers : ArgValues(MaxConsumers)]
    /\ ctor_error = Validate(ctor_args)
    /\ number_of_items =
           (IF ctor_error = "none" THEN ctor_args.number_of_items.val ELSE 0)
    /\ queue_capacity =
           (IF ctor_error = "none" THEN ctor_args.queue_capacity.val ELSE 0)
    /\ num_producers =
           (IF ctor_error = "none" THEN ctor_args.num_producers.val ELSE 0)
    /\ num_consumers =
           (IF ctor_error = "none" THEN ctor_args.num_consumers.val ELSE 0)
    /\ source_data_chunks =
           (IF ctor_error = "none"
            THEN _distribute_items(number_of_items, num_producers) ELSE <<>>)
    /\ sequence_value = 0
    /\ sequence_counter = 0
    /\ queue = <<>>
    /\ put_order = <<>>
    /\ got_last = 0
    /\ unfinished_tasks = 0
    /\ destination_data = <<>>
    /\ mgr_pc = (IF ctor_error = "none" THEN "idle" ELSE "failed")
    /\ mgr_i = 1
    /\ p_pc = [p \in Producers |-> "none"]
    /\ p_idx = [p \in Producers |-> 1]
    /\ p_seq = [p \in Producers |-> 0]
    /\ p_item = [p \in Producers |-> NoItem]
    /\ c_pc = [c \in Consumers |-> "none"]
    /\ c_item = [c \in Consumers |-> NoItem]
    /\ c_after = [c \in Consumers |-> 0]
    /\ local_destination = [c \in Consumers |-> <<>>]
    /\ n_events = NoEvents
    /\ last_event = NoEvent
    /\ handed = <<>>
    /\ completed = {}
    /\ p_seen = [p \in Producers |-> {}]
    /\ puts = {}
    /\ sentinels_put = 0
    /\ early_sentinel = FALSE
    /\ item_after_stop = FALSE
    /\ stops_got = [c \in Consumers |-> 0]
    /\ ops_after_stop = [c \in Consumers |-> 0]
    /\ has_prev = FALSE
    /\ prev_ids = <<>>
    /\ faulted = FALSE

\* Producer(source_ids=..., shared_queue=..., sequence_counter=...,
\* sequence_value=..., name=...): the manager hands every producer both the
\* lock and the counter
BothSeqArgs == [sequence_counter |-> TRUE, sequence_value |-> TRUE]

\* max_value: int = None
NoMax == [some |-> FALSE, val |-> 0]

NoEntry == [kind |-> "none", text |-> <<>>]

\* get_valid_input has not been called
CliIdle ==
    /\ cli_pc = "off"
    /\ cli_isatty = TRUE
    /\ cli_min = 0
    /\ cli_max = NoMax
    /\ cli_entry = NoEntry
    /\ cli_value = 0
    /\ cli_exc = "none"
    /\ cli_prompts = 0
    /\ cli_errors = 0

\* SimulationManager(...) constructed, run() not called yet
Init ==
    /\ ManagerInit
    /\ seq_args = BothSeqArgs
    /\ CliIdle

\* the same threads with producers constructed without the lock, without
\* the counter, or without both (the defaults of Producer.__init__)
FallbackInit ==
    /\ ManagerInit
    /\ seq_args \in [sequence_counter : BOOLEAN, sequence_value : BOOLEAN]
                    \ {BothSeqArgs}
    /\ CliIdle

\* ------------------------------------------------- SimulationManager.run
\* a run() that goes on with the queue object of the run before
FreshQueue_KeptFromLastRun == queue

\* self.queue = queue.Queue(maxsize=self.queue_capacity): a new, empty queue
FreshQueue == <<>>

\* reset of the mutable state, then creation of the thread objects
RunBegin ==
    /\ mgr_pc \in {"idle", "returned"}
    /\ sequence_value' = 0
    /\ destination_data' = <<>>
    /\ queue' = FreshQueue
    /\ put_order' = (IF queue' = <<>> THEN <<>> ELSE put_order)
    /\ got_last' = (IF queue' = <<>> THEN 0 ELSE got_last)
    /\ unfinished_tasks' = 0
    /\ p_pc' = [p \in Producers |-> "created"]
    /\ p_idx' = [p \in Producers |-> 1]
    /\ p_seq' = [p \in Producers |-> 0]
    /\ p_item' = [p \in Producers |-> NoItem]
    /\ c_pc' = [c \in Consumers |-> "created"]
    /\ c_item' = [c \in Consumers |-> NoItem]
    /\ c_after' = [c \in Consumers |-> 0]
    /\ local_destination' = [c \in Consumers |-> <<>>]
    /\ mgr_pc' = "start_p"
    /\ mgr_i' = 1
    /\ n_events' = NoEvents
    /\ last_event' = NoEvent
    /\ handed' = <<>>
    /\ completed' = {}
    /\ p_seen' = [p \in Producers |-> {}]
    /\ puts' = {}
    /\ sentinels_put' = 0
    /\ early_sentinel' = FALSE
    /\ item_after_stop' = FALSE
    /\ stops_got' = [c \in Consumers |-> 0]
    /\ ops_after_stop' = [c \in Consumers |-> 0]
    /\ has_prev' = (has_prev \/ mgr_pc = "returned")
    /\ prev_ids' = (IF mgr_pc = "returned" THEN Ids(destination_data)
                                         ELSE prev_ids)
    /\ faulted' = FALSE
    /\ UNCHANGED <<clivars, cfgvars, sequence_counter>>

\* the manager's loop index moves on, or the loop ends and the next phase begins
MgrAdvance(count, next_pc) ==
    IF mgr_i < count
    THEN mgr_i' = mgr_i + 1 /\ mgr_pc' = mgr_pc
    ELSE mgr_i' = 1 /\ mgr_pc' = next_pc

\* for producer in producers: producer.start()
MgrStartProducer ==
    /\ mgr_pc = "start_p"
    /\ p_pc' = [p_pc EXCEPT ![mgr_i] = "loop"]
    /\ MgrAdvance(num_producers, "start_c")
    /\ UNCHANGED <<clivars, cfgvars, rungh, seqvars, qvars, destination_data,
                   p_idx, p_seq, p_item, cvars, evvars, allocgh, putgh, stopgh>>

\* for consumer in consumers: consumer.start()
MgrStartConsumer ==
    /\ mgr_pc = "start_c"
    /\ c_pc' = [c_pc EXCEPT ![mgr_i] = "get"]
    /\ MgrAdvance(num_consumers, "join_p")
    /\ UNCHANGED <<clivars, cfgvars, rungh, seqvars, qvars, destination_data,
                   pvars, c_item, c_after, local_destination, evvars,
                   allocgh, putgh, stopgh>>

\* a join that waits for the producer to finish its slice normally
ProducerJoinable_OnlyDone(p) == p_pc[p] = "done"

\* a join that returns while the producer thread is still running
ProducerJoinable_NoWait(p) == TRUE

\* producer.join() returns once that producer's thread has ended
ProducerJoinable(p) == Terminated(p_pc[p])

\* for producer in producers: producer.join()
MgrJoinProducer ==
    /\ mgr_pc = "join_p"
    /\ ProducerJoinable(mgr_i)
    /\ MgrAdvance(num_producers, "sentinel")
    /\ UNCHANGED <<clivars, cfgvars, rungh, seqvars, qvars, destination_data,
                   pvars, cvars, evvars, allocgh, putgh, stopgh>>

\* one sentinel too few
SentinelCount_OneShort == num_consumers - 1

\* range(self.num_consumers): how many STOP_SIGNALs the manager enqueues
SentinelCount == num_consumers

\* self.queue.put(STOP_SIGNAL), which waits while the queue is full
MgrPutSentinel ==
    /\ mgr_pc = "sentinel"
    /\ ~QueueFull
    /\ queue' = Append(queue, STOP_SIGNAL)
    /\ put_order' = Append(put_order, NextPutRank)
    /\ got_last' = got_last
    /\ unfinished_tasks' = unfinished_tasks + 1
    /\ MgrAdvance(SentinelCount, "join_c")
    /\ puts' = puts \cup {[by |-> "manager", tag |-> "stop"]}
    /\ sentinels_put' = sentinels_put + 1
    /\ early_sentinel' = (early_sentinel \/ \E p \in Producers : ~Terminated(p_pc[p]))
    /\ UNCHANGED <<clivars, cfgvars, rungh, seqvars, destination_data, pvars, cvars,
                   evvars, allocgh, item_after_stop, stopgh>>

\* a join that returns while the consumer thread is still running
ConsumerJoinable_NoWait(c) == TRUE

\* consumer.join() returns once that consumer's thread has ended
ConsumerJoinable(c) == Terminated(c_pc[c])

\* for consumer in consumers: consumer.join()
MgrJoinConsumer ==
    /\ mgr_pc = "join_c"
    /\ ConsumerJoinable(mgr_i)
    /\ MgrAdvance(num_consumers, "aggregate")
    /\ UNCHANGED <<clivars, cfgvars, rungh, seqvars, qvars, destination_data,
                   pvars, cvars, evvars, allocgh, putgh, stopgh>>

\* merge the private buffers, sort by sequence_number, extend and return
\* destination_data; the sort key raises AttributeError on an item
\* without a sequence_number
MgrAggregate ==
    /\ mgr_pc = "aggregate"
    /\ LET all_results == Concat(local_destination, 1, num_consumers)
       IN IF \A k \in 1..Len(all_results) : HasSequenceNumber(all_results[k])
          THEN /\ destination_data' = destination_data \o SortBySeq(all_results)
               /\ mgr_pc' = "returned"
          ELSE /\ destination_data' = destination_data
               /\ mgr_pc' = "raised"
    /\ UNCHANGED <<clivars, cfgvars, rungh, seqvars, qvars, mgr_i,
                   pvars, cvars, evvars, allocgh, putgh, stopgh>>

\* ------------------------------------------------------------ Producer.run
\* a log line that prints the two queue lengths the other way round
Emit_Swapped(ev) ==
    /\ n_events' = [n_events EXCEPT ![ev.kind] = @ + 1]
    /\ last_event' = [ev EXCEPT !.before = ev.after, !.after = ev.before]

\* logger.info(f"... |  Buffer: {buffer_before} -> {buffer_after}")
Emit(ev) ==
    /\ n_events' = [n_events EXCEPT ![ev.kind] = @ + 1]
    /\ last_event' = ev

\* for item_id in self.source_ids: the slice is exhausted, "Finished production"
P_Finish(p) ==
    /\ p_pc[p] = "loop"
    /\ p_idx[p] > Len(source_data_chunks[p])
    /\ p_pc' = [p_pc EXCEPT ![p] = "done"]
    /\ UNCHANGED <<clivars, cfgvars, rungh, seqvars, qvars, mgrvars, p_idx, p_seq, p_item,
                   cvars, evvars, allocgh, putgh, stopgh>>

\* if self.sequence_counter and self.sequence_value: None is falsy, a Lock
\* and the one-element list are truthy
Sequenced == seq_args.sequence_counter /\ seq_args.sequence_value

\* a fallback that stamps the value after the shared counter's
FallbackSeq_AfterCounter == sequence_value + 1

\* seq_num = 0  # Fallback path when sequence bookkeeping is disabled
FallbackSeq == 0

\* the next id of the slice on the fallback path: no lock, no counter
P_Fallback(p) ==
    /\ p_pc[p] = "loop"
    /\ p_idx[p] <= Len(source_data_chunks[p])
    /\ ~Sequenced
    /\ p_seq' = [p_seq EXCEPT ![p] = FallbackSeq]
    /\ p_pc' = [p_pc EXCEPT ![p] = "construct"]
    /\ UNCHANGED <<clivars, cfgvars, rungh, seqvars, qvars, mgrvars, p_idx, p_item,
                   cvars, evvars, allocgh, putgh, stopgh>>

\* threading.Lock: acquire succeeds only while no thread holds the lock
LockAvailable == sequence_counter = 0

\* the next id of the slice: with self.sequence_counter: (entry)
P_Acquire(p) ==
    /\ p_pc[p] = "loop"
    /\ p_idx[p] <= Len(source_data_chunks[p])
    /\ Sequenced
    /\ LockAvailable
    /\ sequence_counter' = p
    /\ p_seen' = [p_seen EXCEPT ![p] = completed]
    /\ p_pc' = [p_pc EXCEPT ![p] = "read"]
    /\ UNCHANGED <<clivars, cfgvars, rungh, sequence_value, qvars, mgrvars, p_idx, p_seq,
                   p_item, cvars, evvars, handed, completed, putgh, stopgh>>

\* seq_num = self.sequence_value[0]
P_Read(p) ==
    /\ p_pc[p] = "read"
    /\ p_seq' = [p_seq EXCEPT ![p] = sequence_value]
    /\ handed' = Append(handed, sequence_value)
    /\ p_pc' = [p_pc EXCEPT ![p] = "incr"]
    /\ UNCHANGED <<clivars, cfgvars, rungh, seqvars, qvars, mgrvars, p_idx, p_item, cvars,
                   evvars, completed, p_seen, putgh, stopgh>>

\* self.sequence_value[0] += 1
P_Incr(p) ==
    /\ p_pc[p] = "incr"
    /\ sequence_value' = sequence_value + 1
    /\ p_pc' = [p_pc EXCEPT ![p] = "release"]
    /\ UNCHANGED <<clivars, cfgvars, rungh, sequence_counter, qvars, mgrvars, p_idx, p_seq,
                   p_item, cvars, evvars, allocgh, putgh, stopgh>>

\* with self.sequence_counter: (exit)
P_Release(p) ==
    /\ p_pc[p] = "release"
    /\ sequence_counter' = 0
    /\ completed' = completed \cup {p_seq[p]}
    /\ p_pc' = [p_pc EXCEPT ![p] = "construct"]
    /\ UNCHANGED <<clivars, cfgvars, rungh, sequence_value, qvars, mgrvars, p_idx, p_seq,
                   p_item, cvars, evvars, handed, p_seen, putgh, stopgh>>

\* item = WorkItem(item_id, sequence_number=seq_num); a TypeError raised
\* here is not caught, so it ends the thread.  With the fields of models.py
\* the call names a field the dataclass does not have, so this step always
\* takes the TypeError branch and the put and log steps below are never
\* reached from it.  The locals of the frame (seq_num) end with the thread.
P_Construct(p) ==
    /\ p_pc[p] = "construct"
    /\ LET args == ProducerCallArgs(source_data_chunks[p][p_idx[p]], p_seq[p])
       IN IF WorkItemInitAccepts(args)
          THEN /\ p_item' = [p_item EXCEPT ![p] = WorkItem(args)]
               /\ p_pc' = [p_pc EXCEPT ![p] = "put"]
               /\ UNCHANGED <<p_seq, p_seen>>
          ELSE /\ p_item' = p_item
               /\ p_pc' = [p_pc EXCEPT ![p] = "dead"]
               /\ p_seq' = [p_seq EXCEPT ![p] = 0]
               /\ p_seen' = [p_seen EXCEPT ![p] = {}]
    /\ UNCHANGED <<clivars, cfgvars, rungh, seqvars, qvars, mgrvars, p_idx, cvars,
                   evvars, handed, completed, putgh, stopgh>>

\* self.shared_queue.put(item), which waits while the queue is full
P_Put(p) ==
    /\ p_pc[p] = "put"
    /\ ~QueueFull
    /\ queue' = Append(queue, p_item[p])
    /\ put_order' = Append(put_order, NextPutRank)
    /\ got_last' = got_last
    /\ unfinished_tasks' = unfinished_tasks + 1
    /\ puts' = puts \cup {[by |-> "producer", tag |-> p_item[p].tag]}
    /\ item_after_stop' = (item_after_stop \/ sentinels_put > 0)
    /\ p_pc' = [p_pc EXCEPT ![p] = "qsize"]
    /\ UNCHANGED <<clivars, cfgvars, rungh, seqvars, mgrvars, p_idx, p_seq, p_item, cvars,
                   evvars, allocgh, sentinels_put, early_sentinel, stopgh>>

\* buffer_after = qsize(); buffer_before = buffer_after - 1; log "Produced"
P_Log(p) ==
    /\ p_pc[p] = "qsize"
    /\ LET buffer_after == Qsize
           buffer_before == buffer_after - 1
       IN Emit([kind |-> "produced", before |-> buffer_before,
                after |-> buffer_after])
    /\ p_idx' = [p_idx EXCEPT ![p] = p_idx[p] + 1]
    /\ p_pc' = [p_pc EXCEPT ![p] = "loop"]
    /\ UNCHANGED <<clivars, cfgvars, rungh, seqvars, qvars, mgrvars, p_seq, p_item, cvars,
                   allocgh, putgh, stopgh>>

\* ------------------------------------------------------------ Consumer.run
\* item = self.shared_queue.get(), which waits while the queue is empty
C_Get(c) ==
    /\ c_pc[c] = "get"
    /\ ~QueueEmpty
    /\ c_item' = [c_item EXCEPT ![c] = queue[GetIndex]]
    /\ queue' = RemoveAt(queue, GetIndex)
    /\ got_last' = put_order[GetIndex]
    /\ put_order' = RemoveAt(put_order, GetIndex)
    /\ ops_after_stop' = [ops_after_stop EXCEPT
                            ![c] = @ + (IF stops_got[c] > 0 THEN 1 ELSE 0)]
    /\ c_pc' = [c_pc EXCEPT ![c] = "qsize"]
    /\ UNCHANGED <<clivars, cfgvars, rungh, seqvars, unfinished_tasks, mgrvars, pvars,
                   c_after, local_destination, evvars, allocgh, putgh,
                   stops_got>>

\* buffer_after = self.shared_queue.qsize()
C_Qsize(c) ==
    /\ c_pc[c] = "qsize"
    /\ c_after' = [c_after EXCEPT ![c] = Qsize]
    /\ c_pc' = [c_pc EXCEPT ![c] = "check"]
    /\ UNCHANGED <<clivars, cfgvars, rungh, seqvars, qvars, mgrvars, pvars, c_item,
                   local_destination, evvars, allocgh, putgh, stopgh>>

\* a sentinel branch without its break
StopBranchNext_NoBreak == "get"

\* break: where the consumer goes after the sentinel branch
StopBranchNext == "done"

\* if item is STOP_SIGNAL
IsStopSignal(item) == item.tag = STOP_SIGNAL.tag

\* the sentinel branch (log, task_done, break) or the item branch
\* (append, log, task_done); buffer_after is not read again before the
\* next qsize() overwrites it
C_Check(c) ==
    /\ c_pc[c] = "check"
    /\ LET buffer_after == c_after[c]
           buffer_before == buffer_after + 1
       IN IF IsStopSignal(c_item[c])
          THEN /\ Emit([kind |-> "terminated", before |-> buffer_before,
                        after |-> buffer_after])
               /\ stops_got' = [stops_got EXCEPT ![c] = @ + 1]
               /\ local_destination' = local_destination
               /\ c_pc' = [c_pc EXCEPT ![c] = StopBranchNext]
          ELSE /\ local_destination' =
                      [local_destination EXCEPT ![c] = Append(@, c_item[c])]
               /\ Emit([kind |-> "consumed", before |-> buffer_before,
                        after |-> buffer_after])
               /\ stops_got' = stops_got
               /\ c_pc' = [c_pc EXCEPT ![c] = "get"]
    /\ unfinished_tasks' = unfinished_tasks - 1
    /\ c_after' = [c_after EXCEPT ![c] = 0]
    /\ UNCHANGED <<clivars, cfgvars, rungh, seqvars, queue, put_order, got_last,
                   mgrvars, pvars, c_item, allocgh, putgh, ops_after_stop>>

\* ------------------------------------------------------------------ Next
ManagerStep ==
    \/ MgrStartProducer
    \/ MgrStartConsumer
    \/ MgrJoinProducer
    \/ MgrPutSentinel
    \/ MgrJoinConsumer
    \/ MgrAggregate

ProducerStep(p) ==
    \/ P_Finish(p)
    \/ P_Fallback(p)
    \/ P_Acquire(p)
    \/ P_Read(p)
    \/ P_Incr(p)
    \/ P_Release(p)
    \/ P_Construct(p)
    \/ P_Put(p)
    \/ P_Log(p)

ConsumerStep(c) ==
    \/ C_Get(c)
    \/ C_Qsize(c)
    \/ C_Check(c)

Next ==
    \/ RunBegin
    \/ ManagerStep
    \/ \E p \in Producers : ProducerStep(p)
    \/ \E c \in Consumers : ConsumerStep(c)

Spec == Init /\ [][Next]_vars

\* every started thread keeps being scheduled; the caller of run() is free
\* to call it again or not
FairSpec ==
    /\ Spec
    /\ WF_vars(ManagerStep)
    /\ \A p \in 1..MaxProducers : WF_vars(p \in Producers /\ ProducerStep(p))
    /\ \A c \in 1..MaxConsumers : WF_vars(c \in Consumers /\ ConsumerStep(c))

\* the threads of a run whose producers have no sequence bookkeeping
FallbackSpec == FallbackInit /\ [][Next]_vars

\* --------------------------------------------------- cli.get_valid_input
\* the characters an entry is typed from
Chars == {"0", "1", "2", "-", " ", "a"}
Digits == {"0", "1", "2"}

DigitVal(ch) == CASE ch = "0" -> 0 [] ch = "1" -> 1 [] ch = "2" -> 2

\* the lines of at most MaxEntryLen characters
Lines == UNION {[1..n -> Chars] : n \in 0..MaxEntryLen}

\* what an input() call can meet: a line, the end of the stream (EOFError)
\* or Ctrl-C (KeyboardInterrupt)
Entries ==
    {[kind |-> "line", text |-> l] : l \in Lines}
        \cup {[kind |-> "eof", text |-> <<>>],
              [kind |-> "interrupt", text |-> <<>>]}

RECURSIVE StripLeft(_)
StripLeft(s) ==
    IF s # <<>> /\ Head(s) = " " THEN StripLeft(Tail(s)) ELSE s

RECURSIVE StripRight(_)
StripRight(s) ==
    IF s # <<>> /\ s[Len(s)] = " "
    THEN StripRight(SubSeq(s, 1, Len(s) - 1)) ELSE s

RECURSIVE DecimalValue(_, _)
DecimalValue(s, acc) ==
    IF s = <<>> THEN acc
    ELSE DecimalValue(Tail(s), 10 * acc + DigitVal(Head(s)))

\* int(text): surrounding blanks are dropped, then an optional sign and at
\* least one digit, nothing else; anything else raises ValueError
ParseInt(text) ==
    LET t == StripRight(StripLeft(text))
        neg == t # <<>> /\ Head(t) = "-"
        ds == IF neg THEN Tail(t) ELSE t
    IN IF ds # <<>> /\ \A k \in 1..Len(ds) : ds[k] \in Digits
       THEN [ok |-> TRUE,
             val |-> IF neg THEN 0 - DecimalValue(ds, 0) ELSE DecimalValue(ds, 0)]
       ELSE [ok |-> FALSE, val |-> 0]

\* a call get_valid_input(prompt, min_value, max_value) is entered
CliInit ==
    /\ ctor_args = [n \in ArgNames |-> [ty |-> "int", val |-> 1]]
    /\ ManagerInit
    /\ seq_args = BothSeqArgs
    /\ cli_pc = "call"
    /\ cli_isatty \in BOOLEAN
    /\ cli_min \in 0..MaxRangeBound
    /\ cli_max \in {NoMax} \cup {[some |-> TRUE, val |-> v] : v \in 0..MaxRangeBound}
    /\ cli_entry = NoEntry
    /\ cli_value = 0
    /\ cli_exc = "none"
    /\ cli_prompts = 0
    /\ cli_errors = 0

\* if not sys.stdin.isatty(): raise EOFError(...)
GVI_Call ==
    /\ cli_pc = "call"
    /\ IF cli_isatty
       THEN cli_pc' = "prompt" /\ cli_exc' = cli_exc
       ELSE cli_pc' = "raised" /\ cli_exc' = "EOFError"
    /\ UNCHANGED <<simvars, cli_isatty, cli_min, cli_max, cli_entry, cli_value,
                   cli_prompts, cli_errors>>

\* an upper limit that is never applied
AboveMax_Never(value) == FALSE

\* elif max_value is not None and value > max_value
AboveMax(value) == cli_max.some /\ value > cli_max.val

\* value < min_value
BelowMin(value) == value < cli_min

\* one turn of the while True loop: value = int(input(full_prompt)), the
\* range checks, and the except clause (EOFError is raised again,
\* ValueError and KeyboardInterrupt print an error and loop)
GVI_Input(entry) ==
    /\ cli_pc = "prompt"
    /\ cli_prompts < MaxPrompts
    /\ cli_prompts' = cli_prompts + 1
    /\ cli_entry' = entry
    /\ LET parsed == ParseInt(entry.text)
       IN CASE entry.kind = "eof" ->
                 /\ cli_pc' = "raised"
                 /\ cli_exc' = "EOFError"
                 /\ UNCHANGED <<cli_value, cli_errors>>
            [] entry.kind = "interrupt" \/ (entry.kind = "line" /\ ~parsed.ok) ->
                 /\ cli_errors' = cli_errors + 1
                 /\ UNCHANGED <<cli_pc, cli_exc, cli_value>>
            [] entry.kind = "line" /\ parsed.ok ->
                 IF BelowMin(parsed.val) \/ AboveMax(parsed.val)
                 THEN /\ cli_errors' = cli_errors + 1
                      /\ UNCHANGED <<cli_pc, cli_exc, cli_value>>
                 ELSE /\ cli_pc' = "returned"
                      /\ cli_value' = parsed.val
                      /\ UNCHANGED <<cli_exc, cli_errors>>
    /\ UNCHANGED <<simvars, cli_isatty, cli_min, cli_max>>

CliNext ==
    \/ GVI_Call
    \/ \E entry \in Entries : GVI_Input(entry)

\* one call of get_valid_input, with whatever is typed at each prompt
CliSpec == CliInit /\ [][CliNext]_vars

\* ---------------------------------------------------------- worker faults
\* an unhandled exception at any statement of Producer.run ends the thread;
\* raised inside the with block, it releases the lock on the way out; the
\* locals of the frame end with the thread
P_Fault(p) ==
    /\ ~faulted /\ ~has_prev
    /\ p_pc[p] \in {"loop", "read", "incr", "release", "construct", "put",
                    "qsize"}
    /\ p_pc' = [p_pc EXCEPT ![p] = "dead"]
    /\ sequence_counter' = (IF sequence_counter = p THEN 0 ELSE sequence_counter)
    /\ p_seq' = [p_seq EXCEPT ![p] = 0]
    /\ p_seen' = [p_seen EXCEPT ![p] = {}]
    /\ faulted' = TRUE
    /\ UNCHANGED <<clivars, cfgvars, sequence_value, qvars, mgrvars, p_idx, p_item,
                   cvars, evvars, handed, completed, putgh, stopgh, has_prev,
                   prev_ids>>

\* an unhandled exception at any statement of Consumer.run ends the thread
C_Fault(c) ==
    /\ ~faulted /\ ~has_prev
    /\ c_pc[c] \in {"get", "qsize", "check"}
    /\ c_pc' = [c_pc EXCEPT ![c] = "dead"]
    /\ c_item' = [c_item EXCEPT ![c] = NoItem]
    /\ c_after' = [c_after EXCEPT ![c] = 0]
    /\ faulted' = TRUE
    /\ UNCHANGED <<clivars, cfgvars, seqvars, qvars, mgrvars, pvars,
                   local_destination, evvars, allocgh, putgh, stopgh,
                   has_prev, prev_ids>>

\* the program with at most one injected worker fault, in the first run()
\* of the manager (a later run() starts from the same reset state)
FaultNext ==
    \/ Next
    \/ \E p \in Producers : P_Fault(p)
    \/ \E c \in Consumers : C_Fault(c)

\* the threads that are alive keep being scheduled; a fault may or may not
\* happen
FaultSpec ==
    /\ Init /\ [][FaultNext]_vars
    /\ WF_vars(ManagerStep)
    /\ \A p \in 1..MaxProducers : WF_vars(p \in Producers /\ ProducerStep(p))
    /\ \A c \in 1..MaxConsumers : WF_vars(c \in Consumers /\ ConsumerStep(c))

\* ---------------------------------------------------------------- claims
Returned == mgr_pc = "returned"

AllThreadsTerminated ==
    /\ \A p \in Producers : Terminated(p_pc[p])
    /\ \A c \in Consumers : Terminated(c_pc[c])

Range(s) == {s[k] : k \in 1..Len(s)}

\* C1: the list run() returns has exactly number_of_items elements.
C1_Conservation ==
    Returned => Len(destination_data) = number_of_items

\* C2: the item_id values of the list run() returns are exactly
\* 1..number_of_items, each appearing once.
C2_CompleteAndUnique ==
    Returned =>
        /\ \A k \in 1..Len(destination_data) :
               ItemId(destination_data[k]) \in 1..number_of_items
        /\ \A i \in 1..number_of_items :
               Cardinality({k \in 1..Len(destination_data) :
                               ItemId(destination_data[k]) = i}) = 1

\* C3: under fair scheduling every run() that has begun returns, with every
\* producer and every consumer thread terminated.
C3_Termination ==
    (mgr_pc = "start_p") ~> (Returned /\ AllThreadsTerminated)

\* a run has returned in the configurations the claim singles out:
\* capacity 1, more consumers than capacity, more producers than items
C3_Witness ==
    /\ Returned
    /\ AllThreadsTerminated
    /\ queue_capacity = 1
    /\ num_consumers > queue_capacity
    /\ num_producers > number_of_items

\* C4: the shared queue never holds fewer than 0 or more than
\* queue_capacity entries.
C4_BoundedBuffer ==
    Len(queue) >= 0 /\ Len(queue) <= queue_capacity

\* the queue is full while the manager still has a sentinel to enqueue
C4_Witness ==
    /\ mgr_pc = "sentinel"
    /\ sentinels_put >= 1
    /\ Len(queue) = queue_capacity

\* C6: the list run() returns has item_ids 1, 2, ..., number_of_items in
\* that order.
C6_AscendingItemIds ==
    Returned =>
        /\ Len(destination_data) = number_of_items
        /\ \A i \in 1..Len(destination_data) :
               ItemId(destination_data[i]) = i

C8_OneSentinelPerConsumer ==
    \A c \in Consumers :
        /\ stops_got[c] <= 1
        /\ Terminated(c_pc[c]) <=> stops_got[c] = 1
        /\ ops_after_stop[c] = 0
        /\ Returned => stops_got[c] = 1

\* two consumers have each dequeued their sentinel and run() has returned
C8_Witness ==
    /\ Returned
    /\ num_consumers >= 2
    /\ \A c \in Consumers : stops_got[c] = 1 /\ c_pc[c] = "done"

\* C9: no sequence number is handed out twice, none is skipped, an
\* allocation that began after another completed got the larger value, and
\* the numbers handed out in a complete run are exactly
\* 0..number_of_items-1.
C9_SequenceAllocation ==
    /\ \A j, k \in 1..Len(handed) : j # k => handed[j] # handed[k]
    /\ Range(handed) = 0..(Len(handed) - 1)
    /\ \A p \in Producers :
           p_pc[p] \in {"incr", "release", "construct", "put", "qsize"}
               => \A v \in p_seen[p] : v < p_seq[p]
    /\ Returned => Range(handed) = 0..(number_of_items - 1)

\* C10: every produced, consumed and terminated event, at the moment it is
\* emitted, reports a
\* before-length and an after-length in 0..queue_capacity.
C10_EventLengthsInRange ==
    last_event.kind \in EventKinds =>
        /\ last_event.before >= 0 /\ last_event.before <= queue_capacity
        /\ last_event.after >= 0 /\ last_event.after <= queue_capacity

\* C11: a complete run has emitted exactly number_of_items produced events,
\* number_of_items consumed events and num_consumers terminated events.
C11_EventCounts ==
    Returned =>
        /\ n_events["produced"] = number_of_items
        /\ n_events["consumed"] = number_of_items
        /\ n_events["terminated"] = num_consumers

\* C12 as stated: the event emitted last in a complete run reports an
\* after-length of 0, whatever the number of consumers.
C12_LastEventAfterZero ==
    Returned => (last_event.kind \in EventKinds /\ last_event.after = 0)

\* C12 amended: with a single consumer, the event emitted last in a complete
\* run is that consumer's terminated event and reports an after-length of 0.
C12_LastEventAfterZeroOneConsumer ==
    (Returned /\ num_consumers = 1) =>
        (last_event.kind = "terminated" /\ last_event.after = 0)

\* a run with one consumer has returned after its terminated event
C12_Witness ==
    /\ Returned
    /\ num_consumers = 1
    /\ n_events["terminated"] = 1
    /\ last_event = [kind |-> "terminated", before |-> 1, after |-> 0]

RECURSIVE Flatten(_, _)
Flatten(chunks, i) ==
    IF i > Len(chunks) THEN <<>> ELSE chunks[i] \o Flatten(chunks, i + 1)

\* the partition plan of n items over np producers is np contiguous slices
\* in increasing id order whose concatenation is [1..n], the first n % np
\* of n \div np + 1 ids and the rest of n \div np ids
PlanOK(chunks, n, np) ==
    /\ Len(chunks) = np
    /\ Flatten(chunks, 1) = [k \in 1..n |-> k]
    /\ \A i \in 1..np :
           Len(chunks[i]) = (n \div np) + (IF i <= n % np THEN 1 ELSE 0)
    /\ \A i, j \in 1..np : Len(chunks[i]) - Len(chunks[j]) <= 1
    /\ \A i, j \in 1..np : i < j =>
           \A a \in 1..Len(chunks[i]), b \in 1..Len(chunks[j]) :
               chunks[i][a] < chunks[j][b]

\* C14: the plan computed at construction is PlanOK for the manager's
\* number_of_items and num_producers, _distribute_items is PlanOK for every
\* n in 1..PlanMaxItems and np in 1..PlanMaxProducers, and 10 items over 3
\* producers give slices of 4, 3 and 3 ids.
C14_PartitionPlan ==
    /\ mgr_pc # "failed"
           => PlanOK(source_data_chunks, number_of_items, num_producers)
    /\ mgr_pc = "idle" =>
           /\ \A n \in 1..PlanMaxItems, np \in 1..PlanMaxProducers :
                  PlanOK(_distribute_items(n, np), n, np)
           /\ LET plan == _distribute_items(10, 3)
              IN <<Len(plan[1]), Len(plan[2]), Len(plan[3])>> = <<4, 3, 3>>

\* a manager whose items do not divide evenly over several producers
C14_Witness ==
    /\ mgr_pc # "failed"
    /\ num_producers >= 2
    /\ number_of_items % num_producers # 0
    /\ Len(source_data_chunks[1]) = Len(source_data_chunks[num_producers]) + 1

\* some constructor argument is not an int, or is an int <= 0
ArgsInvalid ==
    \E n \in ArgNames : ctor_args[n].ty # "int" \/ ctor_args[n].val <= 0

\* C15: when a constructor argument is <= 0 or not an integer, construction
\* fails with an error, run() can never begin and no worker thread exists.
C15_ConfigurationErrors ==
    ArgsInvalid =>
        /\ ctor_error \in {"TypeError", "ValueError"}
        /\ mgr_pc = "failed"
        /\ ~ENABLED RunBegin
        /\ \A p \in DOMAIN p_pc : p_pc[p] = "none"
        /\ \A c \in DOMAIN c_pc : c_pc[c] = "none"

\* construction with queue_capacity = 0 and otherwise valid arguments failed
C15_Witness ==
    /\ ctor_args.queue_capacity = [ty |-> "int", val |-> 0]
    /\ \A n \in ArgNames \ {"queue_capacity"} :
           ctor_args[n].ty = "int" /\ ctor_args[n].val > 0
    /\ ctor_error = "ValueError"
    /\ mgr_pc = "failed"

SomeWorkerDead ==
    \/ \E p \in Producers : p_pc[p] = "dead"
    \/ \E c \in Consumers : c_pc[c] = "dead"

\* C16: run() does not return normally when a worker thread has died from
\* an unhandled error, nor with fewer than number_of_items results.
C16_WorkerFailureNotSilent ==
    Returned =>
        /\ ~SomeWorkerDead
        /\ Len(destination_data) >= number_of_items

\* C18: the producer's call WorkItem(item_id, sequence_number=seq) is
\* accepted and builds an item that carries item_id and sequence_number.
C18_WorkItemDataModel ==
    \A p \in Producers :
        p_pc[p] = "construct" =>
            LET args == ProducerCallArgs(source_data_chunks[p][p_idx[p]],
                                         p_seq[p])
            IN /\ WorkItemInitAccepts(args)
               /\ DOMAIN WorkItem(args).f = {"item_id", "sequence_number"}
               /\ WorkItem(args).f["item_id"] = args.item_id
               /\ WorkItem(args).f["sequence_number"] = args.sequence_number

\* the places a source id can be in
IsItemWithId(e, i) == e.tag = "item" /\ ItemId(e) = i

CountIn(seq, i) == Cardinality({k \in 1..Len(seq) : IsItemWithId(seq[k], i)})

RECURSIVE SumOver(_, _)
SumOver(f, S) ==
    IF S = {} THEN 0
    ELSE LET x == CHOOSE y \in S : TRUE IN f[x] + SumOver(f, S \ {x})

\* id i is still to be produced: it is at or after the position of a
\* producer that has not stamped it yet
InSlice(p, i) ==
    \E k \in 1..Len(source_data_chunks[p]) :
        /\ source_data_chunks[p][k] = i
        /\ \/ k > p_idx[p]
           \/ k = p_idx[p] /\ p_pc[p] \in {"none", "created", "loop", "read"}

\* id i is held by producer p between stamping and put
HeldByProducer(p, i) ==
    /\ p_idx[p] <= Len(source_data_chunks[p])
    /\ source_data_chunks[p][p_idx[p]] = i
    /\ p_pc[p] \in {"incr", "release", "construct", "put"}

\* id i is held by consumer c between get and append
HeldByConsumer(c, i) ==
    c_pc[c] \in {"qsize", "check"} /\ IsItemWithId(c_item[c], i)

PlacesOf(i) ==
    SumOver([p \in Producers |->
                (IF InSlice(p, i) THEN 1 ELSE 0)
                + (IF HeldByProducer(p, i) THEN 1 ELSE 0)], Producers)
    + CountIn(queue, i)
    + SumOver([c \in Consumers |->
                  (IF HeldByConsumer(c, i) THEN 1 ELSE 0)
                  + CountIn(local_destination[c], i)], Consumers)

\* C20: every source id 1..number_of_items is in exactly one place: still in
\* its producer's slice, held by its producer between stamping and put, in
\* the queue, held by a consumer between get and append, or in one
\* consumer's private buffer.
C20_SingleOwnership ==
    \A i \in 1..number_of_items : PlacesOf(i) = 1

C19_BlockingDiscipline ==
    /\ [](\A p \in Producers :
             p_pc[p] = "put" =>
                 ((ENABLED P_Put(p)) <=> Len(queue) < queue_capacity))
    /\ [](mgr_pc = "sentinel" =>
             ((ENABLED MgrPutSentinel) <=> Len(queue) < queue_capacity))
    /\ [](\A c \in Consumers :
             c_pc[c] = "get" => ((ENABLED C_Get(c)) <=> Len(queue) > 0))
    /\ [][Len(queue') > Len(queue) =>
             (Len(queue) < queue_capacity /\ Len(queue') = Len(queue) + 1)]_vars
    /\ [][\A c \in Consumers :
             (c_pc[c] = "get" /\ c_pc'[c] = "qsize") =>
                 /\ Len(queue) > 0
                 /\ queue' = Tail(queue)
                 /\ c_item'[c] = Head(queue)]_vars

\* the manager's put is suspended on a full queue that holds an entry put
\* earlier, while a consumer is about to get it
C19_Witness ==
    /\ mgr_pc = "sentinel"
    /\ sentinels_put >= 1
    /\ Len(queue) = queue_capacity
    /\ ~ENABLED MgrPutSentinel
    /\ \E c \in Consumers : c_pc[c] = "get" /\ ENABLED C_Get(c)

\* a consumer holds a sentinel it has dequeued, or has handled one
SentinelDequeued ==
    \E c \in Consumers :
        \/ stops_got[c] > 0
        \/ c_pc[c] \in {"qsize", "check"} /\ IsStopSignal(c_item[c])

\* C21: once a consumer has dequeued a sentinel, the queue holds no
\* WorkItem, no WorkItem has been enqueued after a sentinel, and no
\* producer is left that could still enqueue one.
C21_DrainBeforeStop ==
    SentinelDequeued =>
        /\ \A k \in 1..Len(queue) : queue[k].tag # "item"
        /\ ~item_after_stop
        /\ \A p \in Producers : p_pc[p] \in {"done", "dead"}

\* with two producers, a consumer holds the sentinel it has just dequeued
\* while another sentinel waits in the queue
C21_Witness ==
    /\ num_producers >= 2
    /\ \E c \in Consumers : c_pc[c] = "qsize" /\ IsStopSignal(c_item[c])
    /\ Len(queue) >= 1

\* WorkItem(i, seq i-1) as the claim writes it
StampedItem(i) ==
    [tag |-> "item", f |-> [item_id |-> i, sequence_number |-> i - 1]]

\* C23: with one producer the list run() returns is
\* [WorkItem(1, seq 0), ..., WorkItem(n, seq n-1)].
C23_SingleProducerStamping ==
    (Returned /\ num_producers = 1) =>
        destination_data = [i \in 1..number_of_items |-> StampedItem(i)]

\* C24, as stated: every producer run() has created has a non-empty slice.
C24_NonEmptySlices ==
    \A p \in Producers :
        p_pc[p] # "none" => Len(source_data_chunks[p]) >= 1

\* C24, amended: a producer run() has created has a non-empty slice exactly
\* when its index is at most number_of_items; with more producers than
\* items the producers after the first number_of_items have an empty slice.
C24_NonEmptySlicesUpToItems ==
    \A p \in Producers :
        p_pc[p] # "none" =>
            (Len(source_data_chunks[p]) >= 1 <=> p <= number_of_items)

\* more producers than items: the last producer was created with an empty
\* slice and has finished without allocating a sequence number
C24_Witness ==
    /\ num_producers > number_of_items
    /\ source_data_chunks[num_producers] = <<>>
    /\ source_data_chunks[1] # <<>>
    /\ p_pc[num_producers] = "done"

\* C25: whichever threads are scheduled first, the list run() returns has
\* number_of_items elements whose ids are exactly 1..number_of_items, and
\* all threads have terminated.
C25_StartOrderIndependence ==
    Returned =>
        /\ AllThreadsTerminated
        /\ Len(destination_data) = number_of_items
        /\ {ItemId(destination_data[k]) : k \in 1..Len(destination_data)}
               = 1..number_of_items

\* the manager is about to start the first worker thread of a run
AboutToStartThreads == mgr_pc = "start_p" /\ mgr_i = 1

\* C26: when the worker threads of a run are about to be started, the
\* sequence counter is 0, the aggregated result is empty, the queue is
\* empty with nothing pending from an earlier run, and no thread runs yet.
C26_RunReset ==
    AboutToStartThreads =>
        /\ sequence_value = 0
        /\ destination_data = <<>>
        /\ queue = <<>>
        /\ unfinished_tasks = 0
        /\ \A p \in Producers : p_pc[p] = "created"
        /\ \A c \in Consumers : c_pc[c] = "created"

\* a repeated run() is about to start its threads
C26_Witness ==
    /\ AboutToStartThreads
    /\ has_prev
    /\ sequence_value = 0
    /\ queue = <<>>

\* the slice of producer k (1-based) under the plan of section 4: the ids
\* after those of the producers before it
ExpectedSlice(k) ==
    LET q == number_of_items \div num_producers
        r == number_of_items % num_producers
        before == (k - 1) * q + Min(k - 1, r)
        size == q + (IF k <= r THEN 1 ELSE 0)
    IN [j \in 1..size |-> before + j]

\* C27: after construction the manager's source_data_chunks are the plan
\* of its number_of_items and num_producers in every state, no step
\* changes them, and a producer at work reads the id of its plan slice.
C27_PlanNeverChanges ==
    /\ [](mgr_pc # "failed" =>
             /\ Len(source_data_chunks) = num_producers
             /\ \A k \in Producers : source_data_chunks[k] = ExpectedSlice(k))
    /\ [][source_data_chunks' = source_data_chunks]_vars
    /\ [](\A p \in Producers :
             p_pc[p] \in {"read", "incr", "release", "construct"} =>
                 source_data_chunks[p][p_idx[p]] = ExpectedSlice(p)[p_idx[p]])

\* a second run() with several producers and an uneven plan has returned
C27_Witness ==
    /\ Returned
    /\ has_prev
    /\ num_producers >= 2
    /\ number_of_items % num_producers # 0
    /\ \A k \in Producers : source_data_chunks[k] = ExpectedSlice(k)

\* C28: while the manager aggregates or has returned, every consumer
\* thread has ended; a private buffer changes only by its own consumer
\* appending the item it holds, or by the reset of the next run().
C28_AggregateAfterConsumers ==
    /\ [](mgr_pc \in {"aggregate", "returned", "raised"} =>
             \A c \in Consumers : c_pc[c] \in {"done", "dead"})
    /\ [][\A c \in Consumers :
             local_destination'[c] # local_destination[c] =>
                 \/ /\ c_pc[c] = "check"
                    /\ local_destination'[c]
                           = Append(local_destination[c], c_item[c])
                 \/ /\ mgr_pc' = "start_p"
                    /\ local_destination'[c] = <<>>]_vars

\* the manager is about to aggregate the buffers of several consumers,
\* all of which have ended
C28_Witness ==
    /\ mgr_pc = "aggregate"
    /\ num_consumers >= 2
    /\ \A c \in Consumers : c_pc[c] = "done"

\* C29: the entries in the queue are in the order of their puts, and every
\* entry dequeued was put before every entry still in the queue.
C29_FifoDelivery ==
    /\ Len(put_order) = Len(queue)
    /\ \A i, j \in 1..Len(put_order) : i < j => put_order[i] < put_order[j]
    /\ \A i \in 1..Len(put_order) : got_last < put_order[i]

\* the entry put first has been dequeued while the entry put second waits
\* in the queue
C29_Witness ==
    /\ got_last = 1
    /\ put_order = <<2>>
    /\ \E c \in Consumers : c_pc[c] = "qsize"

\* C30: the last event logged reports after = before + 1 if it is a
\* produced event and after = before - 1 if it is a consumed or terminated
\* event.
C30_EventDirection ==
    /\ last_event.kind = "produced" =>
           /\ last_event.after >= last_event.before
           /\ last_event.after = last_event.before + 1
    /\ last_event.kind \in {"consumed", "terminated"} =>
           /\ last_event.after <= last_event.before
           /\ last_event.after = last_event.before - 1

\* a consumer has logged its termination with one entry left in the queue
C30_Witness ==
    /\ last_event.kind = "terminated"
    /\ last_event.after = 1
    /\ last_event.before = 2

\* return self.destination_data: the list the caller of run() receives is
\* the manager's own list object, so it shows whatever that list holds
HandedResult == destination_data

C32_SentinelInjectionCompletes ==
    (mgr_pc = "sentinel")
        ~> (mgr_pc = "join_c" /\ sentinels_put = num_consumers)

\* with more consumers than queue slots, all sentinels have been enqueued
\* and the manager waits for the first consumer that has not ended yet
C32_Witness ==
    /\ mgr_pc = "join_c"
    /\ num_consumers > queue_capacity
    /\ sentinels_put = num_consumers
    /\ \E c \in Consumers : ~Terminated(c_pc[c])

\* the number of puts completed on the queue of this run
Enqueued == NextPutRank - 1

C35_SequencingFallback ==
    ~Sequenced =>
        /\ \A p \in Producers :
               p_pc[p] = "construct" =>
                   ProducerCallArgs(source_data_chunks[p][p_idx[p]],
                                    p_seq[p]).sequence_number = 0
        /\ sequence_value = 0
        /\ sequence_counter = 0
        /\ handed = <<>>
        /\ \A it \in Range(queue) \cup Range(destination_data)
                     \cup {p_item[p] : p \in Producers}
                     \cup {c_item[c] : c \in Consumers}
                     \cup UNION {Range(local_destination[c]) : c \in Consumers} :
               it.tag = "item" => it.f["sequence_number"] = 0

\* two producers without sequence bookkeeping have both taken the fallback
\* path for the first id of their slices
C35_Witness ==
    /\ ~Sequenced
    /\ num_producers >= 2
    /\ \A p \in Producers : p_pc[p] \in {"construct", "dead"}
    /\ \E p \in Producers : p_pc[p] = "construct" /\ p_seq[p] = 0

\* C34: get_valid_input returns only an integer between min_value and
\* max_value (no upper limit when max_value is None); an entry that is not
\* a number, is below min_value or is above max_value prints an error and
\* leads to the next prompt, and any other line is returned as its value;
\* without an interactive stdin the call raises EOFError and never prompts.
C34_GetValidInput ==
    /\ [](cli_pc = "returned" =>
             /\ cli_isatty
             /\ cli_value \in Int
             /\ cli_min <= cli_value
             /\ cli_max.some => cli_value <= cli_max.val)
    /\ [](~cli_isatty =>
             /\ cli_prompts = 0
             /\ cli_pc \in {"call", "raised"}
             /\ cli_pc = "raised" => cli_exc = "EOFError")
    /\ [][(cli_prompts' = cli_prompts + 1 /\ cli_entry'.kind = "line") =>
             LET r == ParseInt(cli_entry'.text)
             IN IF \/ ~r.ok
                   \/ r.val < cli_min
                   \/ (cli_max.some /\ r.val > cli_max.val)
                THEN cli_pc' = "prompt" /\ cli_errors' = cli_errors + 1
                ELSE cli_pc' = "returned" /\ cli_value' = r.val]_vars

\* after a rejected entry the second one, typed with a blank around it,
\* is returned as the largest value allowed
C34_Witness ==
    /\ cli_pc = "returned"
    /\ cli_errors = 1
    /\ cli_prompts = 2
    /\ cli_max.some
    /\ cli_value = cli_max.val
    /\ cli_min < cli_value
    /\ Len(cli_entry.text) = 2
    /\ cli_entry.text[1] = " "

====
